---- MODULE Spec2Model ----
(***************************************************************************)
(* Model of the libdmt allocators:                                         *)
(*   - dmt::allocator::Page   (src/include/dmt/allocator/page.hpp)         *)
(*   - dmt::allocator::Bump   (src/include/libdmt/allocator/bump.hpp)      *)
(*   - allocators::Block      (src/include/allocators/strategy/block.hpp)  *)
(*                                                                         *)
(* Spec      : threads calling Page::Allocate / Page::Release concurrently *)
(* AllocSpec : threads calling Page::Allocate concurrently                 *)
(* SeqSpec   : one thread calling Page::Allocate / Page::Release           *)
(* UndoSpec  : one thread calling Page::Allocate, the platform failing     *)
(* BumpSpec  : one Bump allocator driven by allocate / Reset calls         *)
(* BlockSpec : one Block manager driven by its three operations            *)
(***************************************************************************)
EXTENDS Integers, Naturals, Sequences, FiniteSets, TLC

(***************************************************************************)
(* Bounds of the page model.                                               *)
(***************************************************************************)
\* Number of threads using the Page allocator.
NumThreads == 2
\* Pages of the platform's address space: page addresses are 1..NumPages,
\* address 0 is nullptr.
NumPages == 5
\* Total number of Allocate/Release calls started by concurrent threads (Spec).
MaxCalls == 3
\* Total number of Allocate/Release calls started by a single thread (SeqSpec).
MaxSeqCalls == 4
\* Total number of Allocate calls started by concurrent threads (AllocSpec).
MaxAllocCalls == 4
\* Largest valid page count a caller asks for.
MaxCount == 2
\* Page size measured in sizeof(Span) units (4096 / 8 = 512 on the real
\* platform): the number of Span cells that fit into one page.
SlotsPerPage == 4
\* Platform failures (FetchPages / ReturnPages reporting an error).
MaxFaults == 1
\* Allocate calls started, and platform failures met, by the single thread of
\* UndoSpec.
MaxUndoCalls == 3
MaxUndoFaults == 2
\* Spurious failures of compare_exchange_weak.
MaxSpurious == 1

Threads == 1..NumThreads
Addresses == 0..NumPages
nullptr == 0

(***************************************************************************)
(* Page: constants and types                                               *)
(***************************************************************************)
kRegistrySize == 1
\* 1 << 16, the first page count Allocate rejects.
kCountLimit == 65536
\* State enum.
Inactive == 0
Empty == 1
Partial == 2
Full == 3
\* sizeof(Registry) / sizeof(Span) = 16 / 8
kSpanSetStart == 2
kSpanSetEnd == kRegistrySize * SlotsPerPage
\* next_slot is a 12-bit field.
NextSlotModulus == 4096

Slots == kSpanSetStart..(kSpanSetEnd - 1)

Span(address, count) == [address |-> address, count |-> count]
ZeroSpan == Span(0, 0)

Registry(self_address, next_slot, next_registry, state) ==
  [self_address |-> self_address, next_slot |-> next_slot,
   next_registry |-> next_registry, state |-> state]

\* Page counts a caller passes to Allocate: invalid ones included.
CountInputs == (0..MaxCount) \cup {kCountLimit}

VARIABLES
  registry_,    \* std::atomic<Registry> registry_
  mapped,       \* platform: the set of pages currently mapped
  span_set,     \* memory: the Span cells of every page (read as a span set)
  thr,          \* per thread: position in Allocate/Release and its locals
  allocations,  \* spans returned by a completed Allocate, not yet passed to Release
  released,     \* pointers of allocations released with success, not returned by Allocate since
  ever,         \* pointers that some Allocate has returned
  registry_pages, \* pages fetched by CreateNewRegistry that are still mapped
  links,        \* base |-> next_registry of the registry last installed at base
  calls_left,   \* number of calls that may still be started
  faults,       \* number of platform failures so far
  fault_limit,  \* number of failures the platform may report in this run
  spurious,     \* number of spurious compare_exchange_weak failures so far
  crashed       \* the process died on an invalid memory access

ghosts == <<allocations, released, ever>>

\* What became of the registries CreateNewRegistry made.
registries == <<registry_pages, links>>

pagevars == <<registry_, mapped, span_set, thr, ghosts, registries, calls_left,
              faults, fault_limit, spurious, crashed>>


(***************************************************************************)
(* State of the Bump allocator                                             *)
(***************************************************************************)
VARIABLES
  cfg,        \* the template parameters of this Bump
  offset_,    \* size_t offset_
  chunks_,    \* ChunkHeader* chunks_
  current_,   \* ChunkHeader* current_
  heap,       \* live blocks: base |-> the next field of the header at base
  hist,       \* the allocate calls since the last Reset, each with its outcome
  last,       \* the last call and what it did
  ops         \* number of calls made

bumpvars == <<cfg, offset_, chunks_, current_, heap, hist, last, ops>>

(***************************************************************************)
(* State of the Block manager                                              *)
(***************************************************************************)
VARIABLES
  options_,    \* Options options_
  allocator_,  \* Allocator allocator_: the bases the provider has handed out
  blocks,      \* memory: base |-> the BlockHeader written at base
  block_call,  \* the last call made on the Block manager and what it did
  block_ops    \* number of calls made

blockvars == <<options_, allocator_, blocks, block_call, block_ops>>

vars == <<pagevars, bumpvars, blockvars>>

ZeroPage == [i \in Slots |-> ZeroSpan]

IdleThread ==
  [pc |-> "idle", op |-> "none", count |-> 0, va_base |-> 0,
   registry |-> Registry(0, 0, 0, Inactive), reg_base |-> 0, p |-> 0,
   span |-> ZeroSpan, status |-> "none", value |-> 0,
   owned |-> 0, stale |-> FALSE, unknown |-> FALSE, returned |-> {},
   error |-> "none"]

PageInit ==
  /\ registry_ = Registry(0, 0, 0, Inactive)
  /\ mapped = {}
  /\ span_set = [a \in 1..NumPages |-> ZeroPage]
  /\ thr = [t \in Threads |-> IdleThread]
  /\ allocations = {}
  /\ released = {}
  /\ ever = {}
  /\ registry_pages = {}
  /\ links = <<>>
  /\ faults = 0
  /\ spurious = 0
  /\ crashed = FALSE

(***************************************************************************)
(* Platform primitives (internal/platform.hpp).                            *)
(***************************************************************************)
Range(base, count) == base..(base + count - 1)

\* Bases at which the platform can map `count` fresh contiguous pages.
FreeBases(count) ==
  {b \in 1..NumPages :
     /\ b + count - 1 <= NumPages
     /\ \A i \in Range(b, count) : i \notin mapped}

\* FetchPages succeeded at `base`: the pages are mapped and zero-filled.
FetchPages(base, count) ==
  /\ mapped' = mapped \cup Range(base, count)
  /\ span_set' = [a \in 1..NumPages |->
                    IF a \in Range(base, count) THEN ZeroPage ELSE span_set[a]]

\* ReturnPages succeeded: every page of the range is unmapped.
ReturnPages(base, count) ==
  /\ mapped' = mapped \ Range(base, count)
  /\ registry_pages' = registry_pages \ Range(base, count)
  /\ span_set' = [a \in 1..NumPages |->
                    IF a \in Range(base, count) THEN ZeroPage ELSE span_set[a]]

(***************************************************************************)
(* Page: pure computations                                                 *)
(***************************************************************************)
\* Allocate's argument check: count == 0 || count >= 1 << 16 is rejected.
\* ValidCountOffByOne lets 1 << 16 through.
ValidCountOffByOne(count) == ~(count = 0 \/ count > kCountLimit)
ValidCount(count) == ~(count = 0 \/ count >= kCountLimit)

\* Release's argument check: p == nullptr is rejected.
ValidPointer(p) == p # nullptr

\* RegisterSpan: the registry a successful insert installs.
\* NextRegistryNoIncrement leaves next_slot where it was.
\* NextRegistryNeverFull never marks the registry Full.
NextRegistryNoIncrement(registry) == [registry EXCEPT !.state = Partial]
NextRegistryNeverFull(registry) ==
  [registry EXCEPT !.next_slot = (registry.next_slot + 1) % NextSlotModulus,
                   !.state = Partial]
NextRegistry(registry) ==
  LET next_slot == (registry.next_slot + 1) % NextSlotModulus IN
  [registry EXCEPT !.next_slot = next_slot,
                   !.state = IF next_slot = kSpanSetEnd THEN Full ELSE Partial]

\* CreateNewRegistry: the registry header installed for fresh pages at `base`.
NewRegistry(registry, base) ==
  [self_address |-> base,
   next_slot |-> kSpanSetStart,
   next_registry |-> IF registry.state # Inactive THEN registry.self_address
                     ELSE registry.next_registry,
   state |-> Empty]

nullopt == [has_value |-> FALSE, value |-> ZeroSpan]
Some(span) == [has_value |-> TRUE, value |-> span]

Min(S) == CHOOSE x \in S : \A y \in S : x <= y

\* FindSpan over the span set at registry.self_address (mapped memory):
\* the first cell of [kSpanSetStart, kSpanSetEnd) whose address equals base.
FindSpan(registry, base) ==
  LET set == span_set[registry.self_address]
      hits == {i \in Slots : set[i].address = base}
  IN  IF hits = {} THEN nullopt ELSE Some(set[Min(hits)])

\* What a read through a pointer to unmapped memory (nullptr included) can
\* produce when the process survives it: nothing that matches, or a cell
\* that happens to match with any count.
WildReads(base) ==
  {nullopt} \cup {Some(Span(base, c)) : c \in 1..MaxCount}

(***************************************************************************)
(* Page: the steps of Allocate and Release, one per shared access          *)
(***************************************************************************)
\* A thread back in its caller with the call's outcome.
Finished(me, status, value) ==
  [IdleThread EXCEPT !.pc = "done", !.op = me.op, !.count = me.count, !.p = me.p,
                     !.span = me.span, !.owned = me.owned,
                     !.stale = me.stale, !.unknown = me.unknown,
                     !.returned = me.returned, !.status = status,
                     !.value = value]

\* Allocate(count): the argument check and FetchPages(count).
Allocate(t, count) ==
  /\ ~crashed
  /\ UNCHANGED <<bumpvars, blockvars, registries, fault_limit>>
  /\ thr[t].pc = "idle"
  /\ calls_left > 0
  /\ calls_left' = calls_left - 1
  /\ UNCHANGED <<registry_, ghosts, spurious, crashed>>
  /\ LET me == [IdleThread EXCEPT !.op = "Allocate", !.count = count] IN
     IF ~ValidCount(count)
     THEN /\ thr' = [thr EXCEPT ![t] = Finished(me, "InvalidInput", nullptr)]
          /\ UNCHANGED <<mapped, span_set, faults>>
     ELSE \/ /\ faults < fault_limit
             /\ faults' = faults + 1
             /\ thr' = [thr EXCEPT ![t] = Finished(me, "Internal", nullptr)]
             /\ UNCHANGED <<mapped, span_set>>
          \/ \E base \in FreeBases(count) :
               /\ FetchPages(base, count)
               /\ thr' = [thr EXCEPT ![t] =
                            [me EXCEPT !.pc = "RegisterSpan", !.va_base = base]]
               /\ UNCHANGED faults

\* RegisterSpan: registry_.load and the dispatch on its state.
RegisterSpanLoad(t) ==
  /\ ~crashed
  /\ UNCHANGED <<bumpvars, blockvars, registries, fault_limit>>
  /\ thr[t].pc = "RegisterSpan"
  /\ thr' = [thr EXCEPT ![t] =
               [@ EXCEPT !.registry = registry_,
                         !.pc = IF registry_.state \in {Inactive, Full}
                                THEN "CreateNewRegistry"
                                ELSE "RegisterSpanCas"]]
  /\ UNCHANGED <<registry_, mapped, span_set, ghosts, calls_left, faults,
                 spurious, crashed>>

\* CreateNewRegistry: FetchPages(kRegistrySize).
CreateNewRegistryFetch(t) ==
  /\ ~crashed
  /\ UNCHANGED <<bumpvars, blockvars, fault_limit>>
  /\ thr[t].pc = "CreateNewRegistry"
  /\ UNCHANGED <<registry_, ghosts, links, calls_left, spurious, crashed>>
  /\ \/ /\ faults < fault_limit
        /\ faults' = faults + 1
        /\ thr' = [thr EXCEPT ![t] =
                     [@ EXCEPT !.pc = "AllocateUndo", !.error = "Internal"]]
        /\ UNCHANGED <<mapped, span_set, registry_pages>>
     \/ \E base \in FreeBases(kRegistrySize) :
          /\ FetchPages(base, kRegistrySize)
          /\ registry_pages' = registry_pages \cup Range(base, kRegistrySize)
          /\ thr' = [thr EXCEPT ![t] =
                       [@ EXCEPT !.pc = "CreateNewRegistryCas",
                                 !.reg_base = base]]
          /\ UNCHANGED faults

\* CreateNewRegistry: compare_exchange_weak(registry, new_registry).
CreateNewRegistryCas(t) ==
  /\ ~crashed
  /\ UNCHANGED <<bumpvars, blockvars, fault_limit>>
  /\ thr[t].pc = "CreateNewRegistryCas"
  /\ UNCHANGED <<mapped, span_set, ghosts, registry_pages, calls_left, faults,
                 crashed>>
  /\ \/ /\ registry_ = thr[t].registry
        /\ registry_' = NewRegistry(thr[t].registry, thr[t].reg_base)
        /\ links' = [a \in DOMAIN links \cup {thr[t].reg_base} |->
                       IF a = thr[t].reg_base THEN registry_'.next_registry
                       ELSE links[a]]
        /\ thr' = [thr EXCEPT ![t] =
                     [@ EXCEPT !.pc = "RegisterSpan", !.reg_base = 0]]
        /\ UNCHANGED spurious
     \/ /\ registry_ # thr[t].registry
        /\ thr' = [thr EXCEPT ![t] = [@ EXCEPT !.pc = "CreateNewRegistryReturn"]]
        /\ UNCHANGED <<registry_, links, spurious>>
     \/ /\ registry_ = thr[t].registry
        /\ spurious < MaxSpurious
        /\ spurious' = spurious + 1
        /\ thr' = [thr EXCEPT ![t] = [@ EXCEPT !.pc = "CreateNewRegistryReturn"]]
        /\ UNCHANGED <<registry_, links>>

\* CreateNewRegistry: ReturnPages of the registry that lost the exchange.
CreateNewRegistryReturn(t) ==
  /\ ~crashed
  /\ UNCHANGED <<bumpvars, blockvars, fault_limit>>
  /\ thr[t].pc = "CreateNewRegistryReturn"
  /\ UNCHANGED <<registry_, ghosts, links, calls_left, spurious, crashed>>
  /\ \/ /\ faults < fault_limit
        /\ faults' = faults + 1
        /\ thr' = [thr EXCEPT ![t] =
                     [@ EXCEPT !.pc = "AllocateUndo", !.error = "Internal"]]
        /\ UNCHANGED <<mapped, span_set, registry_pages>>
     \/ /\ ReturnPages(thr[t].reg_base, kRegistrySize)
        /\ thr' = [thr EXCEPT ![t] =
                     [@ EXCEPT !.pc = "RegisterSpan", !.reg_base = 0]]
        /\ UNCHANGED faults

\* RegisterSpan: compare_exchange_weak(registry, new_registry) of an insert.
RegisterSpanCas(t) ==
  /\ ~crashed
  /\ UNCHANGED <<bumpvars, blockvars, registries, fault_limit>>
  /\ thr[t].pc = "RegisterSpanCas"
  /\ UNCHANGED <<mapped, span_set, ghosts, calls_left, faults, crashed>>
  /\ \/ /\ registry_ = thr[t].registry
        /\ registry_' = NextRegistry(thr[t].registry)
        /\ thr' = [thr EXCEPT ![t] = [@ EXCEPT !.pc = "RegisterSpanWrite"]]
        /\ UNCHANGED spurious
     \/ /\ registry_ # thr[t].registry
        /\ thr' = [thr EXCEPT ![t] = [@ EXCEPT !.pc = "RegisterSpan"]]
        /\ UNCHANGED <<registry_, spurious>>
     \/ /\ registry_ = thr[t].registry
        /\ spurious < MaxSpurious
        /\ spurious' = spurious + 1
        /\ thr' = [thr EXCEPT ![t] = [@ EXCEPT !.pc = "RegisterSpan"]]
        /\ UNCHANGED registry_

\* RegisterSpan: span_set[registry.next_slot] = span, then Allocate returns
\* va_range.base.  A store into an unmapped page kills the process or is lost.
RegisterSpanWrite(t) ==
  /\ ~crashed
  /\ UNCHANGED <<bumpvars, blockvars, registries, fault_limit>>
  /\ thr[t].pc = "RegisterSpanWrite"
  /\ UNCHANGED <<registry_, mapped, calls_left, faults, spurious>>
  /\ LET me == thr[t]
         span == Span(me.va_base, me.count)
         done == /\ thr' = [thr EXCEPT ![t] = Finished(me, "Ok", me.va_base)]
                 /\ allocations' = allocations \cup {span}
                 /\ released' = released \ {me.va_base}
                 /\ ever' = ever \cup {me.va_base}
     IN  IF me.registry.self_address \in mapped
         THEN /\ span_set' = [span_set EXCEPT
                                ![me.registry.self_address][me.registry.next_slot] = span]
              /\ done
              /\ UNCHANGED crashed
         ELSE \/ /\ crashed' = TRUE
                 /\ UNCHANGED <<span_set, thr, ghosts>>
              \/ /\ done
                 /\ UNCHANGED <<span_set, crashed>>

\* Allocate: RegisterSpan failed, ReturnPages(va_range) and report the error.
\* AllocateNoUndo reports the error and keeps the pages.
AllocateNoUndo(t) ==
  /\ ~crashed
  /\ UNCHANGED <<bumpvars, blockvars, registries, fault_limit>>
  /\ thr[t].pc = "AllocateUndo"
  /\ UNCHANGED <<registry_, mapped, span_set, ghosts, calls_left, faults,
                 spurious, crashed>>
  /\ thr' = [thr EXCEPT ![t] = Finished(thr[t], thr[t].error, nullptr)]

AllocateUndo(t) ==
  /\ ~crashed
  /\ UNCHANGED <<bumpvars, blockvars, fault_limit>>
  /\ thr[t].pc = "AllocateUndo"
  /\ UNCHANGED <<registry_, ghosts, links, calls_left, spurious, crashed>>
  /\ LET me == thr[t] IN
     \/ /\ faults < fault_limit
        /\ faults' = faults + 1
        /\ thr' = [thr EXCEPT ![t] = Finished(me, "Internal", nullptr)]
        /\ UNCHANGED <<mapped, span_set, registry_pages>>
     \/ /\ ReturnPages(me.va_base, me.count)
        /\ thr' = [thr EXCEPT ![t] =
                     Finished([me EXCEPT !.returned = Range(me.va_base, me.count)],
                              me.error, nullptr)]
        /\ UNCHANGED faults

\* Release(p): the argument check and registry_.load.
Release(t, p) ==
  /\ ~crashed
  /\ UNCHANGED <<bumpvars, blockvars, registries, fault_limit>>
  /\ thr[t].pc = "idle"
  /\ calls_left > 0
  /\ calls_left' = calls_left - 1
  /\ UNCHANGED <<registry_, mapped, span_set, released, ever, faults, spurious,
                 crashed>>
  /\ LET held == {s \in allocations : s.address = p}
         me == [IdleThread EXCEPT
                  !.op = "Release", !.p = p,
                  !.owned = IF held = {} THEN 0
                            ELSE (CHOOSE s \in held : TRUE).count,
                  !.stale = p \in released,
                  !.unknown = p \notin ever]
     IN  /\ allocations' = allocations \ held
         /\ IF ~ValidPointer(p)
            THEN thr' = [thr EXCEPT ![t] = Finished(me, "InvalidInput", nullptr)]
            ELSE thr' = [thr EXCEPT ![t] =
                           [me EXCEPT !.pc = "FindSpan", !.registry = registry_]]

\* Release: FindSpan(registry, p).  Reading the span set of a registry whose
\* page is not mapped (self_address 0 of the Inactive registry included) is
\* an invalid access: the process dies, or the read yields anything.
ReleaseFindSpan(t) ==
  /\ ~crashed
  /\ UNCHANGED <<bumpvars, blockvars, registries, fault_limit>>
  /\ thr[t].pc = "FindSpan"
  /\ UNCHANGED <<registry_, mapped, span_set, ghosts, calls_left, faults,
                 spurious>>
  /\ LET me == thr[t]
         found(maybe_span) ==
           IF ~maybe_span.has_value
           THEN thr' = [thr EXCEPT ![t] = Finished(me, "InvalidInput", nullptr)]
           ELSE thr' = [thr EXCEPT ![t] =
                          [me EXCEPT !.pc = "ReleaseReturn",
                                     !.span = maybe_span.value]]
     IN  IF me.registry.self_address \in mapped
         THEN /\ found(FindSpan(me.registry, me.p))
              /\ UNCHANGED crashed
         ELSE \/ /\ crashed' = TRUE
                 /\ UNCHANGED thr
              \/ /\ \E maybe_span \in WildReads(me.p) : found(maybe_span)
                 /\ UNCHANGED crashed

\* Release: ReturnPages(VirtualAddressRange(p, span.count)).
ReleaseReturn(t) ==
  /\ ~crashed
  /\ UNCHANGED <<bumpvars, blockvars, fault_limit>>
  /\ thr[t].pc = "ReleaseReturn"
  /\ UNCHANGED <<registry_, allocations, ever, links, calls_left, spurious,
                 crashed>>
  /\ LET me == thr[t] IN
     \/ /\ faults < fault_limit
        /\ faults' = faults + 1
        /\ thr' = [thr EXCEPT ![t] = Finished(me, "Internal", nullptr)]
        /\ UNCHANGED <<mapped, span_set, released, registry_pages>>
     \/ /\ ReturnPages(me.p, me.span.count)
        /\ thr' = [thr EXCEPT ![t] =
                     Finished([me EXCEPT !.returned = Range(me.p, me.span.count)],
                              "Ok", nullptr)]
        /\ released' = IF me.owned > 0 THEN released \cup {me.p} ELSE released
        /\ UNCHANGED faults

\* The caller has taken the result of the call.
Return(t) ==
  /\ ~crashed
  /\ UNCHANGED <<bumpvars, blockvars, registries, fault_limit>>
  /\ thr[t].pc = "done"
  /\ thr' = [thr EXCEPT ![t] = IdleThread]
  /\ UNCHANGED <<registry_, mapped, span_set, ghosts, calls_left, faults,
                 spurious, crashed>>

PageStep(t) ==
  \/ \E count \in CountInputs : Allocate(t, count)
  \/ RegisterSpanLoad(t)
  \/ CreateNewRegistryFetch(t)
  \/ CreateNewRegistryCas(t)
  \/ CreateNewRegistryReturn(t)
  \/ RegisterSpanCas(t)
  \/ RegisterSpanWrite(t)
  \/ AllocateUndo(t)
  \/ \E p \in Addresses : Release(t, p)
  \/ ReleaseFindSpan(t)
  \/ ReleaseReturn(t)
  \/ Return(t)

(***************************************************************************)
(* Bump: bounds, configuration and state                                   *)
(***************************************************************************)
\* Number of allocate/Reset calls made on the allocator.
MaxBumpOps == 4
\* The heap holds this many blocks of AlignedSize_ bytes.
HeapBlocks == 3

\* sizeof(ChunkHeader): a size_t size and a next pointer.
HeaderSize == 16
\* size_t arithmetic wraps.  The sizes of the model stay below 2^12, so a
\* subtraction that wraps is as far above every request under this modulus
\* as it is under 2^64.
SizeTModulus == 1073741824

\* Template parameters of the instantiations checked: AlignmentT, SizeT, GrowT.
BumpConfigs ==
  {[alignment |-> a, size |-> 3 * a, grow |-> g] :
     a \in {8, 16, 32}, g \in BOOLEAN}

AlignUp(n, alignment) == ((n + alignment - 1) \div alignment) * alignment

Alignment_ == cfg.alignment
RequestSize_ == cfg.size
AlignedSize_ == AlignUp(RequestSize_ + HeaderSize, Alignment_)
GrowWhenFull_ == cfg.grow

\* dmt::internal::GetChunk: the first byte after the header.
GetChunk(chunk) == chunk + HeaderSize

\* remaining_size, in size_t arithmetic; RemainingSizeNoHeader forgets the
\* header.
RemainingSizeNoHeader(offset) == (AlignedSize_ - offset) % SizeTModulus
RemainingSize(offset) == (AlignedSize_ - offset - HeaderSize) % SizeTModulus

RequestSize(n) == AlignUp(n, Alignment_)

\* Bases the underlying allocator can return for AlignedSize_ bytes aligned
\* to Alignment_ while the blocks of h are live: it serves them from
\* HeapBlocks adjacent cells of AlignedSize_ bytes, in any order.
FreeChunkBases(h) ==
  {b \in {k * AlignedSize_ : k \in 1..HeapBlocks} : b \notin DOMAIN h}

\* AllocateNewChunk: a fresh block with a header whose next is null, or
\* nullptr when the underlying allocator fails.
AllocateNewChunk(h) == {nullptr} \cup FreeChunkBases(h)

\* The heap once a header has been created at base.
WithChunk(h, base) == [c \in DOMAIN h \cup {base} |-> IF c = base THEN nullptr ELSE h[c]]

\* The blocks reached from chunk through next.
RECURSIVE ChainFrom(_, _)
ChainFrom(h, chunk) ==
  IF chunk = nullptr \/ chunk \notin DOMAIN h THEN <<>>
  ELSE <<chunk>> \o ChainFrom([c \in DOMAIN h \ {chunk} |-> h[c]], h[chunk])

SeqToSet(q) == {q[i] : i \in DOMAIN q}

\* Sizes a caller asks for.
SizeInputs ==
  {0, 1, 2 * Alignment_, AlignedSize_ - HeaderSize, AlignedSize_,
   AlignedSize_ + 1}

NoCall == [op |-> "none", n |-> 0, result |-> nullptr, got |-> <<>>, failed |-> FALSE]

\* The defaults of the template parameters: pointer alignment, GrowStorage.
DefaultConfig == [alignment |-> 8, size |-> 24, grow |-> TRUE]

BumpInit(config) ==
  /\ cfg = config
  /\ offset_ = 0
  /\ chunks_ = nullptr
  /\ current_ = nullptr
  /\ heap = <<>>
  /\ hist = <<>>
  /\ last = NoCall
  /\ ops = 0

\* The state allocate leaves and what it returns.
Outcome(result, offset, chunks, current, h, got, failed) ==
  [result |-> result, offset |-> offset, chunks |-> chunks,
   current |-> current, heap |-> h, got |-> got, failed |-> failed]

\* allocate(n) from the point where a first block exists: chunks and current
\* are set, h is the heap, got the blocks obtained so far in this call.
Serve(n, chunks, current, h, got) ==
  LET request_size == RequestSize(n)
      remaining_size == RemainingSize(offset_)
  IN  IF request_size > remaining_size
      THEN IF ~GrowWhenFull_
           THEN {Outcome(nullptr, offset_, chunks, current, h, got, FALSE)}
           ELSE {IF chunk = nullptr
                 THEN Outcome(nullptr, offset_, chunks, current, h, got, TRUE)
                 ELSE Outcome(GetChunk(chunk), request_size, chunks, chunk,
                              [WithChunk(h, chunk) EXCEPT ![current] = chunk],
                              Append(got, chunk), FALSE)
                 : chunk \in AllocateNewChunk(h)}
      ELSE {Outcome(GetChunk(current) + offset_, offset_ + request_size,
                    chunks, current, h, got, FALSE)}

\* allocate(n) after the check of n against AlignedSize_.
AllocateChecked(n) ==
  IF chunks_ = nullptr
  THEN UNION {IF chunk = nullptr
              THEN {Outcome(nullptr, offset_, chunks_, current_, heap, <<>>, TRUE)}
              ELSE Serve(n, chunk, chunk, WithChunk(heap, chunk), <<chunk>>)
              : chunk \in AllocateNewChunk(heap)}
  ELSE Serve(n, chunks_, current_, heap, <<>>)

\* Every outcome of allocate(n) in the current state.
\* AllocateOutcomesUnchecked leaves out the check of n.
AllocateOutcomesUnchecked(n) == AllocateChecked(n)
AllocateOutcomes(n) ==
  IF n > AlignedSize_
  THEN {Outcome(nullptr, offset_, chunks_, current_, heap, <<>>, FALSE)}
  ELSE AllocateChecked(n)

\* T* allocate(std::size_t n)
BumpAllocate(n) ==
  /\ ops < MaxBumpOps
  /\ last.op # "~Bump"
  /\ UNCHANGED <<pagevars, blockvars>>
  /\ ops' = ops + 1
  /\ \E o \in AllocateOutcomes(n) :
       /\ offset_' = o.offset
       /\ chunks_' = o.chunks
       /\ current_' = o.current
       /\ heap' = o.heap
       /\ last' = [op |-> "allocate", n |-> n, result |-> o.result,
                   got |-> o.got, failed |-> o.failed]
       /\ hist' = Append(hist, [n |-> n, result |-> o.result,
                                block |-> o.current, got |-> o.got,
                                failed |-> o.failed])
  /\ UNCHANGED cfg

\* void Reset(): offset_ = 0, ReleaseChunks(chunks_) if there are any,
\* chunks_ = nullptr.  current_ keeps its value.
BumpReset ==
  /\ ops < MaxBumpOps
  /\ last.op # "~Bump"
  /\ UNCHANGED <<pagevars, blockvars>>
  /\ ops' = ops + 1
  /\ offset_' = 0
  /\ heap' = IF chunks_ # nullptr
             THEN [c \in DOMAIN heap \ SeqToSet(ChainFrom(heap, chunks_)) |-> heap[c]]
             ELSE heap
  /\ chunks_' = nullptr
  /\ hist' = <<>>
  /\ last' = [NoCall EXCEPT !.op = "Reset",
                            !.got = IF chunks_ # nullptr
                                    THEN ChainFrom(heap, chunks_) ELSE <<>>]
  /\ UNCHANGED <<cfg, current_>>

\* ~Bump() { Reset(); }: the last call made on the allocator.
BumpDestroy ==
  /\ ops < MaxBumpOps
  /\ last.op # "~Bump"
  /\ UNCHANGED <<pagevars, blockvars>>
  /\ ops' = ops + 1
  /\ offset_' = 0
  /\ heap' = IF chunks_ # nullptr
             THEN [c \in DOMAIN heap \ SeqToSet(ChainFrom(heap, chunks_)) |-> heap[c]]
             ELSE heap
  /\ chunks_' = nullptr
  /\ hist' = <<>>
  /\ last' = [NoCall EXCEPT !.op = "~Bump",
                            !.got = IF chunks_ # nullptr
                                    THEN ChainFrom(heap, chunks_) ELSE <<>>]
  /\ UNCHANGED <<cfg, current_>>

BumpNext ==
  \/ \E n \in SizeInputs : BumpAllocate(n)
  \/ BumpReset
  \/ BumpDestroy

(***************************************************************************)
(* Block manager (allocators/strategy/block.hpp)                           *)
(***************************************************************************)
\* Number of calls made on the Block manager.
MaxBlockOps == 3
\* The provider serves blocks from this many adjacent cells.
ProviderCells == 3

\* sizeof(BlockHeader): a size_t size and a next pointer, as ChunkHeader.
GetBlockHeaderSize == HeaderSize

\* internal::AlignDown for an alignment that is a power of two.
AlignDown(n, alignment) == (n \div alignment) * alignment

\* The errors a provider reports (those of Page::Allocate and Page::Release).
ProviderErrors == {"InvalidInput", "Internal"}

\* Options of the instantiations checked: AlignmentT, SizeT, LimitT.
BlockOptions ==
  {[alignment |-> a, size |-> s, must_contain_size_bytes_in_space |-> m,
    grow_when_full |-> TRUE] :
     a \in {8, 16, 64, 4096},
     s \in {0, 1, 15, 16, 17, 48, 100, 4095, 4096, 4097},
     m \in BOOLEAN}

\* kDefaultOptions of Block<>: HaveAtLeastSizeBytes, GrowStorage.
kDefaultOptions ==
  [alignment |-> 8, size |-> 48, must_contain_size_bytes_in_space |-> TRUE,
   grow_when_full |-> TRUE]

NoBlockCall ==
  [op |-> "none", status |-> "none", value |-> nullptr,
   provider_error |-> "none", returned |-> <<>>]

BlockInit(options) ==
  /\ options_ = options
  /\ allocator_ = {}
  /\ blocks = <<>>
  /\ block_call = NoBlockCall
  /\ block_ops = 0

\* GetAlignedSize(): the size of the blocks after header and alignment.
\* GetAlignedSizeNoHeader forgets the header.
GetAlignedSizeNoHeader ==
  IF options_.must_contain_size_bytes_in_space
  THEN AlignUp(options_.size, options_.alignment)
  ELSE AlignDown(options_.size, options_.alignment)
GetAlignedSize ==
  IF options_.must_contain_size_bytes_in_space
  THEN AlignUp(options_.size + GetBlockHeaderSize, options_.alignment)
  ELSE AlignDown(options_.size, options_.alignment)

\* Bases at which the provider can place a block: cells that hold a block
\* and start on a multiple of the alignment.
ProviderBases ==
  LET cell == AlignUp(GetAlignedSize + GetBlockHeaderSize, options_.alignment)
  IN  {k * cell : k \in 1..ProviderCells} \ allocator_

\* BlockHeader::Create(allocation, next): the header written at the base.
BlockHeader(size, next) == [size |-> size, next |-> next]

\* internal::ReleaseBlockList: the blocks from block through next up to null
\* or sentinel.
RECURSIVE BlockList(_, _, _)
BlockList(h, block, sentinel) ==
  IF block = nullptr \/ block = sentinel \/ block \notin DOMAIN h THEN <<>>
  ELSE <<block>> \o BlockList([c \in DOMAIN h \ {block} |-> h[c]],
                              h[block].next, sentinel)

\* Heads a caller may pass to ReleaseAllBlocks: null, or a block whose list
\* is made of live blocks.
Heads ==
  {nullptr} \cup
  {b \in DOMAIN blocks :
     LET list == BlockList(blocks, b, nullptr)
     IN  blocks[list[Len(list)]].next = nullptr}

\* Result<BlockHeader*> AllocateNewBlock(BlockHeader* next)
AllocateNewBlock(next) ==
  /\ block_ops < MaxBlockOps
  /\ block_ops' = block_ops + 1
  /\ UNCHANGED <<pagevars, bumpvars, options_>>
  /\ \/ \E error \in ProviderErrors :
          /\ block_call' = [NoBlockCall EXCEPT !.op = "AllocateNewBlock",
                                               !.status = error,
                                               !.provider_error = error]
          /\ UNCHANGED <<allocator_, blocks>>
     \/ \E base \in ProviderBases :
          /\ allocator_' = allocator_ \cup {base}
          /\ blocks' = [c \in DOMAIN blocks \cup {base} |->
                          IF c = base THEN BlockHeader(GetAlignedSize, next)
                          ELSE blocks[c]]
          /\ block_call' = [NoBlockCall EXCEPT !.op = "AllocateNewBlock",
                                               !.status = "Ok", !.value = base]

\* Result<void> ReleaseBlock(BlockHeader* block) { return {}; }
ReleaseBlock(block) ==
  /\ block_ops < MaxBlockOps
  /\ block_ops' = block_ops + 1
  /\ UNCHANGED <<pagevars, bumpvars, options_, allocator_, blocks>>
  /\ block_call' = [NoBlockCall EXCEPT !.op = "ReleaseBlock", !.status = "Ok",
                                       !.value = block]

\* Result<void> ReleaseAllBlocks(BlockHeader* block, BlockHeader* sentinel):
\* the walk returns the blocks in order and stops at the first Return that
\* fails.
ReleaseAllBlocks(block, sentinel) ==
  /\ block_ops < MaxBlockOps
  /\ block_ops' = block_ops + 1
  /\ UNCHANGED <<pagevars, bumpvars, options_>>
  /\ LET list == BlockList(blocks, block, sentinel)
         gone(k) == {list[i] : i \in 1..k}
     IN  \/ /\ allocator_' = allocator_ \ gone(Len(list))
            /\ blocks' = [c \in DOMAIN blocks \ gone(Len(list)) |-> blocks[c]]
            /\ block_call' = [NoBlockCall EXCEPT !.op = "ReleaseAllBlocks",
                                                 !.status = "Ok", !.value = block,
                                                 !.returned = list]
         \/ \E k \in 0..(Len(list) - 1), error \in ProviderErrors :
              /\ allocator_' = allocator_ \ gone(k)
              /\ blocks' = [c \in DOMAIN blocks \ gone(k) |-> blocks[c]]
              /\ block_call' = [NoBlockCall EXCEPT
                                  !.op = "ReleaseAllBlocks",
                                  !.status = "Internal",
                                  !.value = block,
                                  !.provider_error = error,
                                  !.returned = SubSeq(list, 1, k)]

BlockNext ==
  \/ \E next \in {nullptr} \cup DOMAIN blocks : AllocateNewBlock(next)
  \/ \E block \in DOMAIN blocks : ReleaseBlock(block)
  \/ \E block \in Heads, sentinel \in {nullptr} \cup DOMAIN blocks :
       ReleaseAllBlocks(block, sentinel)

(***************************************************************************)
(* Specifications                                                          *)
(***************************************************************************)
\* Threads calling Page::Allocate and Page::Release concurrently.
Init ==
  /\ PageInit /\ calls_left = MaxCalls /\ fault_limit = MaxFaults
  /\ BumpInit(DefaultConfig)
  /\ BlockInit(kDefaultOptions)

Next == \E t \in Threads : PageStep(t)

Spec == Init /\ [][Next]_vars

\* One thread calling Page::Allocate and Page::Release.
SeqInit ==
  /\ PageInit /\ calls_left = MaxSeqCalls /\ fault_limit = MaxFaults
  /\ BumpInit(DefaultConfig)
  /\ BlockInit(kDefaultOptions)

SeqNext == PageStep(1)

SeqSpec == SeqInit /\ [][SeqNext]_vars

\* One Bump allocator, any of the configurations.
BumpSpecInit ==
  /\ \E c \in BumpConfigs : BumpInit(c)
  /\ PageInit /\ calls_left = 0 /\ fault_limit = 0
  /\ BlockInit(kDefaultOptions)

BumpSpecNext == BumpNext

BumpSpec == BumpSpecInit /\ [][BumpSpecNext]_vars

\* One Block manager, any of the options.
BlockSpecInit ==
  /\ \E o \in BlockOptions : BlockInit(o)
  /\ PageInit /\ calls_left = 0 /\ fault_limit = 0
  /\ BumpInit(DefaultConfig)

BlockSpecNext == BlockNext

BlockSpec == BlockSpecInit /\ [][BlockSpecNext]_vars

\* Threads calling Page::Allocate concurrently, none calling Release.
AllocInit ==
  /\ PageInit /\ calls_left = MaxAllocCalls /\ fault_limit = MaxFaults
  /\ BumpInit(DefaultConfig)
  /\ BlockInit(kDefaultOptions)

AllocStep(t) ==
  \/ \E count \in CountInputs : Allocate(t, count)
  \/ RegisterSpanLoad(t)
  \/ CreateNewRegistryFetch(t)
  \/ CreateNewRegistryCas(t)
  \/ CreateNewRegistryReturn(t)
  \/ RegisterSpanCas(t)
  \/ RegisterSpanWrite(t)
  \/ AllocateUndo(t)
  \/ Return(t)

AllocNext == \E t \in Threads : AllocStep(t)

AllocSpec == AllocInit /\ [][AllocNext]_vars

\* One thread calling Page::Allocate on a platform that fails more than once.
UndoInit ==
  /\ PageInit /\ calls_left = MaxUndoCalls /\ fault_limit = MaxUndoFaults
  /\ BumpInit(DefaultConfig)
  /\ BlockInit(kDefaultOptions)

UndoNext == AllocStep(1)

UndoSpec == UndoInit /\ [][UndoNext]_vars

(***************************************************************************)
(* Page: claims                                                            *)
(***************************************************************************)
\* A thread whose Release of p has come back.
ReleaseDone(t) == thr[t].pc = "done" /\ thr[t].op = "Release"

\* A thread whose Release died in FindSpan.
ReleaseDied(t) == crashed /\ thr[t].pc = "FindSpan"

\* C1: with the platform not failing, Release(p) succeeds whenever p was
\* returned by a completed Allocate and has not been released since, however
\* many spans were registered afterwards, and no Allocate of a valid count
\* fails.
C1_ReleaseFindsEverySpan ==
  \A t \in Threads :
    faults = 0 =>
      /\ (thr[t].owned > 0 /\ ReleaseDone(t)) => thr[t].status = "Ok"
      /\ thr[t].owned > 0 => ~ReleaseDied(t)
      /\ (thr[t].pc = "done" /\ thr[t].op = "Allocate"
            /\ thr[t].count \in 1..MaxCount) => thr[t].status = "Ok"

\* C2: a Release(p) that follows a successful Release(p), with no Allocate
\* returning p in between, fails with InvalidInput and returns no pages to
\* the platform.
C2_NoDoubleRelease ==
  \A t \in Threads :
    (thr[t].op = "Release" /\ thr[t].stale) =>
      /\ thr[t].pc # "ReleaseReturn"
      /\ ReleaseDone(t) => (thr[t].status = "InvalidInput" /\ thr[t].returned = {})

\* C3: with the platform not failing, Release(p) of a pointer that
\* Allocate(n) returned succeeds and returns to the platform exactly the n
\* pages starting at p, also when the platform has handed out p before with
\* another page count.
C3_ReleaseReturnsTheSpan ==
  \A t \in Threads :
    (faults = 0 /\ thr[t].owned > 0 /\ ReleaseDone(t)) =>
      /\ thr[t].status = "Ok"
      /\ thr[t].returned = Range(thr[t].p, thr[t].owned)

\* C4: Release(p) of a non-null p that no Allocate has returned completes
\* with InvalidInput and returns no pages, in the Inactive state as well.
C4_UnknownPointerRejected ==
  \A t \in Threads :
    (thr[t].op = "Release" /\ thr[t].unknown /\ thr[t].p # nullptr) =>
      /\ ~ReleaseDied(t)
      /\ thr[t].pc # "ReleaseReturn"
      /\ ReleaseDone(t) => (thr[t].status = "InvalidInput" /\ thr[t].returned = {})

\* C5: Allocate(0), Allocate(count >= 2^16) and Release(nullptr) fail with
\* InvalidInput in the step that calls them, and that step fetches and
\* returns no pages and leaves the registry cell and every span cell as
\* they were.
C5_InvalidArgumentsRejected ==
  [][\A t \in Threads :
       (/\ thr[t].pc = "idle"
        /\ thr'[t].pc # "idle"
        /\ \/ /\ thr'[t].op = "Allocate"
              /\ (thr'[t].count = 0 \/ thr'[t].count >= 65536)
           \/ /\ thr'[t].op = "Release"
              /\ thr'[t].p = 0)
       => /\ thr'[t].pc = "done"
          /\ thr'[t].status = "InvalidInput"
          /\ thr'[t].returned = {}
          /\ mapped' = mapped
          /\ registry_' = registry_
          /\ span_set' = span_set]_vars

\* C5 witness: Allocate(2^16) came back with InvalidInput while a registry
\* and a span are mapped.
C5_Witness ==
  \E t \in Threads :
    /\ thr[t].pc = "done"
    /\ thr[t].op = "Allocate"
    /\ thr[t].count = 65536
    /\ thr[t].status = "InvalidInput"
    /\ registry_.state # Inactive
    /\ allocations # {}

(***************************************************************************)
(* Bump: claims                                                            *)
(***************************************************************************)
\* Bytes of a block after its header.
Payload == AlignedSize_ - HeaderSize

\* The bytes [result, result + n) of the i-th call since the last Reset.
ResultBytes(i) == hist[i].result..(hist[i].result + hist[i].n - 1)

\* The header bytes of the block at base.
HeaderBytes(base) == base..(base + HeaderSize - 1)

\* The calls since the last Reset that returned memory.
Served == {i \in DOMAIN hist : hist[i].result # nullptr}

\* No call since the last Reset saw the underlying allocator fail.
ProviderHeld == \A i \in DOMAIN hist : ~hist[i].failed

\* Bytes of the payload handed out by the served calls before the i-th.
RECURSIVE UsedBefore(_)
UsedBefore(i) ==
  IF i <= 1 THEN 0
  ELSE UsedBefore(i - 1)
         + (IF hist[i - 1].result # nullptr
            THEN AlignUp(hist[i - 1].n, Alignment_) ELSE 0)

\* The blocks obtained since the last Reset, in the order of creation.
RECURSIVE ObtainedUpTo(_)
ObtainedUpTo(i) == IF i = 0 THEN <<>> ELSE ObtainedUpTo(i - 1) \o hist[i].got

\* C6: every non-null result is aligned to the configured alignment and
\* result + n lies within the block that is current when the call returns.
C6_AlignedAndInsideBlock ==
  \A i \in Served :
    /\ hist[i].result % Alignment_ = 0
    /\ hist[i].result + hist[i].n <= hist[i].block + AlignedSize_

\* C7: the byte ranges of the non-null results since the last Reset are
\* pairwise disjoint and none of them meets the header of a block of the
\* chain.
C7_DisjointAndHeadersIntact ==
  /\ \A i, j \in Served : i < j => ResultBytes(i) \cap ResultBytes(j) = {}
  /\ \A i \in Served :
       \A c \in SeqToSet(ChainFrom(heap, chunks_)) :
         ResultBytes(i) \cap HeaderBytes(c) = {}

\* C8: under ReturnNull, while the underlying allocator supplies the block:
\* a call succeeds exactly when its aligned size fits in the bytes of the
\* payload the earlier results left, it is served right after them in the
\* one block, and no second block is obtained; so allocate(n), n >= 1,
\* repeated from a fresh allocator succeeds exactly
\* floor((aligned_size - header_size) / align_up(n, alignment)) times, and a
\* smaller request that still fits succeeds after a null.
C8_ExactCapacity ==
  (~GrowWhenFull_ /\ ProviderHeld) =>
    /\ \A i \in DOMAIN hist :
         /\ (hist[i].result # nullptr)
              <=> (AlignUp(hist[i].n, Alignment_) <= Payload - UsedBefore(i))
         /\ hist[i].result # nullptr =>
              hist[i].result = chunks_ + HeaderSize + UsedBefore(i)
    /\ Len(ObtainedUpTo(Len(hist))) <= 1
    /\ Cardinality(DOMAIN heap) <= 1
    /\ (hist # <<>> /\ \A i \in DOMAIN hist : hist[i].n = hist[1].n /\ hist[i].n >= 1) =>
         \A i \in DOMAIN hist :
           (hist[i].result # nullptr)
             <=> (i <= Payload \div AlignUp(hist[1].n, Alignment_))

\* C8 witness: under ReturnNull a request was served, a later one of two
\* alignment units got null from the block, and a smaller one after that was
\* served from the same block.
C8_Witness ==
  /\ ~GrowWhenFull_
  /\ ProviderHeld
  /\ \E i, j, k \in DOMAIN hist :
       /\ i < j /\ j < k
       /\ hist[i].result # nullptr
       /\ hist[j].result = nullptr /\ hist[j].n = 2 * Alignment_
       /\ hist[k].result # nullptr /\ hist[k].n = 1
       /\ hist[k].block = hist[i].block

\* C9: under GrowStorage with an underlying allocator that does not fail:
\* consecutive non-empty results from the same block strictly increase; a
\* request that does not fit in the bytes left in the current block obtains
\* exactly one block, linked as next of the previous current block, which
\* becomes current, and the result is the base of its payload, while a
\* request that fits obtains none; and the chain from the head is the
\* sequence of the blocks obtained since the last Reset, ending in current.
C9_GrowByChaining ==
  (GrowWhenFull_ /\ ProviderHeld) =>
    /\ \A i, j \in Served :
         (i < j /\ hist[i].n >= 1 /\ hist[j].n >= 1
            /\ (\A k \in Served : ~(i < k /\ k < j))
            /\ hist[i].block = hist[j].block)
         => hist[i].result < hist[j].result
    /\ \A i, j \in Served :
         (i < j /\ \A k \in Served : ~(i < k /\ k < j)) =>
           LET left == hist[i].block + AlignedSize_
                         - (hist[i].result + AlignUp(hist[i].n, Alignment_))
           IN  IF AlignUp(hist[j].n, Alignment_) > left
               THEN /\ Len(hist[j].got) = 1
                    /\ hist[j].block = hist[j].got[1]
                    /\ heap[hist[i].block] = hist[j].block
                    /\ hist[j].result = hist[j].block + HeaderSize
               ELSE /\ hist[j].got = <<>>
                    /\ hist[j].block = hist[i].block
    /\ chunks_ # nullptr =>
         /\ ChainFrom(heap, chunks_) = ObtainedUpTo(Len(hist))
         /\ current_ = ChainFrom(heap, chunks_)[Len(ChainFrom(heap, chunks_))]

\* One of the failures allocate(n) can meet, as the call that has just
\* returned saw it.
Oversize == last'.n > AlignedSize_
NullReturned == last'.op = "allocate" /\ ops' = ops + 1 /\ last'.result = nullptr

\* allocate returns null for every kind of failure.
NullOnEveryFailure ==
  (last'.op = "allocate" /\ ops' = ops + 1) =>
    /\ Oversize => last'.result = nullptr
    /\ last'.failed => last'.result = nullptr
    /\ (~GrowWhenFull_ /\ ~Oversize
          /\ AlignUp(last'.n, Alignment_) > Payload - offset_) =>
         last'.result = nullptr

\* C10 as claimed: allocate returns null for every kind of failure, and a
\* call that returns null leaves head, current, offset and the links between
\* the blocks as they were; an oversize request obtains no block.
C10_NullChangesNothing ==
  [][/\ NullOnEveryFailure
     /\ NullReturned =>
          /\ chunks_' = chunks_
          /\ current_' = current_
          /\ offset_' = offset_
          /\ heap' = heap
          /\ Oversize => last'.got = <<>>]_vars

\* C10 amended: allocate returns null for every kind of failure; a call that
\* returns null leaves the offset and the links of the blocks of the chain
\* as they were; head and current are as they were too unless the allocator
\* held no chain and n <= aligned_size: then the call has obtained the first
\* block, which stays as head and current with a null next; an oversize
\* request obtains no block.
C10_NullKeepsChain ==
  [][/\ NullOnEveryFailure
     /\ NullReturned =>
          /\ offset_' = offset_
          /\ \A c \in DOMAIN heap : c \in DOMAIN heap' /\ heap'[c] = heap[c]
          /\ Oversize => last'.got = <<>>
          /\ IF last'.got = <<>>
             THEN /\ chunks_' = chunks_
                  /\ current_' = current_
                  /\ heap' = heap
             ELSE /\ chunks_ = nullptr
                  /\ ~Oversize
                  /\ Len(last'.got) = 1
                  /\ chunks_' = last'.got[1]
                  /\ current_' = last'.got[1]
                  /\ DOMAIN heap' = DOMAIN heap \cup {last'.got[1]}
                  /\ heap'[last'.got[1]] = nullptr]_vars

\* C10 witness: an allocate on an allocator without a chain returned null
\* after it had obtained the first block.
C10_Witness ==
  /\ last.op = "allocate"
  /\ last.result = nullptr
  /\ last.got # <<>>
  /\ chunks_ = last.got[1]

\* C11: in the state Reset() leaves, the offset is zero and the head pointer
\* and the current pointer are both null.
C11_ResetClearsPointers ==
  last.op = "Reset" =>
    /\ offset_ = 0
    /\ chunks_ = nullptr
    /\ current_ = nullptr

\* A call of the allocator has just returned.
Called(op) == last'.op = op /\ ops' = ops + 1

\* The bytes of the block at base.
BlockBytes(base) == base..(base + AlignedSize_ - 1)

\* C12: allocate returns no block to the provider; Reset and the destructor
\* return every live block, each once, and nothing when there is no chain;
\* an allocate that follows a Reset and returns memory has obtained a block
\* for it and serves no byte of a block that Reset released and that is not
\* live again.
C12_BlocksReturnedOnce ==
  [][/\ Called("allocate") =>
          \A c \in DOMAIN heap : c \in DOMAIN heap'
     /\ (Called("Reset") \/ Called("~Bump")) =>
          /\ heap' = <<>>
          /\ SeqToSet(last'.got) = DOMAIN heap
          /\ Cardinality(SeqToSet(last'.got)) = Len(last'.got)
          /\ chunks_ = nullptr => last'.got = <<>>
     /\ (last.op = "Reset" /\ Called("allocate") /\ last'.result # nullptr) =>
          /\ last'.got # <<>>
          /\ \A c \in SeqToSet(last.got) \ DOMAIN heap' :
               (last'.result..(last'.result + last'.n - 1)) \cap BlockBytes(c) = {}
    ]_vars

(***************************************************************************)
(* Block manager: claims                                                   *)
(***************************************************************************)
\* C13: the aligned block size is a multiple of the alignment; with
\* HaveAtLeastSizeBytes it is the smallest one that leaves size bytes after
\* the header, with NoMoreThanSizeBytes the largest one not above size
\* (4096 for size 4096 and alignment 4096, with a payload of 4096 minus the
\* header); every header that AllocateNewBlock wrote carries it as its size.
C13_AlignedBlockSize ==
  LET alignment == options_.alignment
      size == options_.size
      aligned == GetAlignedSize
  IN  /\ aligned % alignment = 0
      /\ IF options_.must_contain_size_bytes_in_space
         THEN /\ aligned - GetBlockHeaderSize >= size
              /\ (aligned - alignment) - GetBlockHeaderSize < size
         ELSE /\ aligned <= size
              /\ aligned + alignment > size
      /\ (alignment = 4096 /\ size = 4096
            /\ ~options_.must_contain_size_bytes_in_space) => aligned = 4096
      /\ \A b \in DOMAIN blocks : blocks[b].size = aligned

\* C13 witness: AllocateNewBlock has produced a block of 4096 bytes under
\* NoMoreThanSizeBytes with size 4096 and alignment 4096.
C13_Witness ==
  /\ options_.alignment = 4096
  /\ options_.size = 4096
  /\ ~options_.must_contain_size_bytes_in_space
  /\ block_call.op = "AllocateNewBlock"
  /\ block_call.status = "Ok"
  /\ blocks[block_call.value].size = 4096

\* C14: a call of the Block manager in which the provider reported an error,
\* whichever it was, fails with Internal.
C14_ProviderErrorsWrapped ==
  block_call.provider_error # "none" => block_call.status = "Internal"

(***************************************************************************)
(* Page: claims about concurrent calls                                     *)
(***************************************************************************)
\* A thread whose compare-exchange in RegisterSpan has succeeded and whose
\* span is not written yet, and the (registry, slot index) it has reserved.
Writing(t) == thr[t].pc = "RegisterSpanWrite"
Reserved(t) == <<thr[t].registry.self_address, thr[t].registry.next_slot>>

\* C15: under concurrent Allocate calls no two threads hold the same
\* (registry, slot index) reserved; the step that writes a span writes it to
\* the reserved slot of a mapped registry, at an index in
\* [kSpanSetStart, kSpanSetEnd), and that slot was never written before; and
\* no step changes a slot that holds a span.
C15_SlotExclusive ==
  [][/\ \A t, u \in Threads :
          (t # u /\ Writing(t) /\ Writing(u)) => Reserved(t) # Reserved(u)
     /\ \A t \in Threads :
          (Writing(t) /\ thr'[t].pc = "done") =>
            LET self_address == thr[t].registry.self_address
                next_slot == thr[t].registry.next_slot
            IN  /\ next_slot \in Slots
                /\ self_address \in mapped
                /\ span_set[self_address][next_slot] = ZeroSpan
                /\ span_set'[self_address][next_slot]
                     = Span(thr[t].va_base, thr[t].count)
                /\ thr'[t].status = "Ok"
     /\ \A a \in 1..NumPages, i \in Slots :
          span_set[a][i] # ZeroSpan => span_set'[a][i] = span_set[a][i]
    ]_vars

\* C15 witness: two threads hold reserved slots of the same registry at the
\* same time.
C15_Witness ==
  \E t, u \in Threads :
    /\ t # u
    /\ Writing(t) /\ Writing(u)
    /\ thr[t].registry.self_address = thr[u].registry.self_address
    /\ thr[t].registry.next_slot # thr[u].registry.next_slot

\* The registry cell holds a registry whose fields agree with one another.
CellConsistent(registry) ==
  registry.state # Inactive =>
    /\ kSpanSetStart <= registry.next_slot
    /\ registry.next_slot <= kSpanSetEnd
    /\ registry.state = Full <=> registry.next_slot = kSpanSetEnd
    /\ registry.state = Empty <=> registry.next_slot = kSpanSetStart

\* The step is the successful compare-exchange of an insert by thread t.
Inserted(t) ==
  thr[t].pc = "RegisterSpanCas" /\ thr'[t].pc = "RegisterSpanWrite"

\* C16: under concurrent Allocates the registry cell, when not Inactive, has
\* kSpanSetStart <= next_slot <= kSpanSetEnd, is Full exactly when next_slot
\* = kSpanSetEnd and Empty exactly when next_slot = kSpanSetStart; a
\* successful insert adds exactly one to next_slot and changes neither
\* self_address nor next_registry; and a cell that is not Inactive never
\* becomes Inactive.
C16_CellInvariant ==
  [][/\ CellConsistent(registry_)
     /\ CellConsistent(registry_')
     /\ \A t \in Threads :
          Inserted(t) =>
            /\ registry_'.next_slot = registry_.next_slot + 1
            /\ registry_'.self_address = registry_.self_address
            /\ registry_'.next_registry = registry_.next_registry
     /\ registry_.state # Inactive => registry_'.state # Inactive
    ]_vars

\* C16 witness: the first registry became Full, a second one was installed
\* and an insert into it has succeeded.
C16_Witness ==
  /\ registry_.next_registry # nullptr
  /\ registry_.state = Partial
  /\ \E t \in Threads : Writing(t) /\ thr[t].registry.state = Empty

\* The registries met from the one at address through next_registry, newest
\* first, for at most fuel hops.
RECURSIVE ChainOf(_, _)
ChainOf(address, fuel) ==
  IF address = nullptr \/ fuel = 0 \/ address \notin DOMAIN links THEN <<>>
  ELSE <<address>> \o ChainOf(links[address], fuel - 1)

\* The chain from the current registry.
RegistryChain ==
  IF registry_.state = Inactive THEN <<>>
  ELSE ChainOf(registry_.self_address, NumPages + 1)

\* The chain is acyclic and ends at null.
ChainEndsAtNull ==
  /\ \A i, j \in DOMAIN RegistryChain :
       i # j => RegistryChain[i] # RegistryChain[j]
  /\ RegistryChain # <<>> => links[RegistryChain[Len(RegistryChain)]] = nullptr

\* The step is a successful compare-exchange of CreateNewRegistry by thread t.
Installed(t) ==
  /\ thr[t].pc = "CreateNewRegistryCas"
  /\ thr'[t].pc = "RegisterSpan"
  /\ registry_' # registry_

InCreateNewRegistry(t) ==
  thr[t].pc \in {"CreateNewRegistry", "CreateNewRegistryCas",
                 "CreateNewRegistryReturn"}

\* The step is a failed compare-exchange of CreateNewRegistry by thread t.
LostInstall(t) ==
  thr[t].pc = "CreateNewRegistryCas" /\ thr'[t].pc = "CreateNewRegistryReturn"

RecordedInCurrent(t) ==
  /\ thr[t].owned > 0
  /\ thr[t].registry.state # Inactive
  /\ thr[t].registry.self_address = registry_.self_address
  /\ thr[t].registry.self_address \in mapped
  /\ \E i \in Slots :
       span_set[thr[t].registry.self_address][i] = Span(thr[t].p, thr[t].owned)

\* C19: the step in which Allocate returns p has stored the span {p, count}
\* in the slot reserved for it; a slot that is reserved and not yet written
\* holds address zero; and the FindSpan of a Release(p) that started after
\* Allocate returned p, while the registry that recorded p is the current
\* one, finds the span {p, count} of that allocation.
C19_ReleaseFindsWrittenSpan ==
  [][\A t \in Threads :
       /\ (Writing(t) /\ thr'[t].pc = "done" /\ thr'[t].status = "Ok") =>
            span_set'[Reserved(t)[1]][Reserved(t)[2]]
              = Span(thr'[t].value, thr'[t].count)
       /\ (Writing(t) /\ Reserved(t)[1] \in mapped) =>
            span_set[Reserved(t)[1]][Reserved(t)[2]].address = 0
       /\ (thr[t].pc = "FindSpan" /\ thr'[t].pc # "FindSpan"
             /\ RecordedInCurrent(t)) =>
            /\ thr'[t].pc = "ReleaseReturn"
            /\ thr'[t].span = Span(thr[t].p, thr[t].owned)
    ]_vars

\* The step in which thread t's Allocate reports that RegisterSpan failed,
\* and the pages that call fetched for its span.
Failing(t) == thr[t].pc = "AllocateUndo" /\ thr'[t].pc = "done"
SpanPages(t) == Range(thr[t].va_base, thr[t].count)

\* RegisterSpan fails only on a failure of the platform inside
\* CreateNewRegistry, and the steps of a failing Allocate write no span slot
\* and do not hand the span out.
FailsInCreateNewRegistry(t) ==
  /\ (thr[t].pc # "AllocateUndo" /\ thr'[t].pc = "AllocateUndo") =>
       /\ InCreateNewRegistry(t)
       /\ faults' = faults + 1
       /\ thr'[t].error = "Internal"
       /\ mapped' = mapped
       /\ span_set' = span_set
       /\ registry_' = registry_
  /\ Failing(t) =>
       /\ thr'[t].status = thr[t].error
       /\ thr'[t].value = nullptr
       /\ registry_' = registry_
       /\ allocations' = allocations
       /\ \A a \in (1..NumPages) \ SpanPages(t) : span_set'[a] = span_set[a]

\* C20 as claimed: when RegisterSpan fails, Allocate returns the span's pages
\* before it reports the registry's error, no span slot is written, and no
\* page the call fetched, for the span or for a registry, is mapped after it.
C20_NothingStaysMapped ==
  [][\A t \in Threads :
       /\ FailsInCreateNewRegistry(t)
       /\ Failing(t) =>
            /\ SpanPages(t) \cap mapped' = {}
            /\ thr[t].reg_base # nullptr => thr[t].reg_base \notin mapped'
    ]_vars

\* C20 amended: when RegisterSpan fails, Allocate calls ReturnPages on the
\* span's pages before it reports the registry's error, Internal, and no span
\* slot is written; the span's pages are unmapped by that step unless the
\* platform refuses that ReturnPages, and then nothing is unmapped and the
\* error is Internal as well; a registry that lost the exchange is unmapped
\* when its ReturnPages succeeds, and when the platform refuses it the
\* registry's pages stay as they are.
C20_UndoReturnsSpanPages ==
  [][\A t \in Threads :
       /\ FailsInCreateNewRegistry(t)
       /\ Failing(t) =>
            /\ thr'[t].status = "Internal"
            /\ IF faults' = faults
               THEN mapped' = mapped \ SpanPages(t)
               ELSE mapped' = mapped /\ faults' = faults + 1
       /\ (thr[t].pc = "CreateNewRegistryReturn" /\ thr'[t].pc = "RegisterSpan") =>
            /\ faults' = faults
            /\ mapped' = mapped \ Range(thr[t].reg_base, kRegistrySize)
    ]_vars

\* C20 witness: an Allocate has failed and returned the pages of its span
\* while the registry it had fetched, which lost the exchange and which the
\* platform refused to take back, is still mapped.
C20_Witness ==
  \E t \in Threads :
    /\ thr[t].pc = "done"
    /\ thr[t].op = "Allocate"
    /\ thr[t].status = "Internal"
    /\ thr[t].returned # {}
    /\ thr[t].returned \cap mapped = {}
    /\ registry_pages \ SeqToSet(RegistryChain) # {}

(***************************************************************************)
(* Page: termination under fair scheduling                                 *)
(***************************************************************************)
\* Total number of Allocate/Release calls started by the threads of LiveSpec.
MaxLiveCalls == 3

\* Threads calling Page::Allocate and Page::Release on a platform that never
\* reports a failure, every thread scheduled again and again.
LiveInit ==
  /\ PageInit /\ calls_left = MaxLiveCalls /\ fault_limit = 0
  /\ BumpInit(DefaultConfig)
  /\ BlockInit(kDefaultOptions)

LiveStep(t) ==
  \/ \E count \in CountInputs : Allocate(t, count)
  \/ RegisterSpanLoad(t)
  \/ CreateNewRegistryFetch(t)
  \/ CreateNewRegistryCas(t)
  \/ CreateNewRegistryReturn(t)
  \/ RegisterSpanCas(t)
  \/ RegisterSpanWrite(t)
  \/ \E p \in Addresses : Release(t, p)
  \/ ReleaseFindSpan(t)
  \/ ReleaseReturn(t)
  \/ Return(t)

LiveNext == \E t \in Threads : LiveStep(t)

FairScheduling == \A t \in Threads : WF_vars(LiveStep(t))

LiveSpec == LiveInit /\ [][LiveNext]_vars /\ FairScheduling

\* Thread t is inside Allocate or Release.
InCall(t) == thr[t].pc \notin {"idle", "done"}

\* Thread t is back in its caller with the result of the call.
Returned(t) == thr[t].pc = "done"

\* The platform has no page left for FetchPages(kRegistrySize): the next
\* FetchPages would report a failure.
OutOfPages == FreeBases(kRegistrySize) = {}

\* Thread t's compare-exchange fails in this step although no spurious
\* failure happened: the exchange lost to contention.
LostExchange(t) ==
  /\ thr[t].pc \in {"RegisterSpanCas", "CreateNewRegistryCas"}
  /\ thr'[t].pc \in {"RegisterSpan", "CreateNewRegistryReturn"}
  /\ registry_' = registry_
  /\ spurious' = spurious

\* This step is a successful compare-exchange on the registry cell.
WonExchange(t) ==
  /\ thr[t].pc \in {"RegisterSpanCas", "CreateNewRegistryCas"}
  /\ thr'[t].pc \in {"RegisterSpanWrite", "RegisterSpan"}
  /\ registry_' # registry_

\* The registry cell differs from what t loaded, and it changes by
\* successful compare-exchanges alone.
ExchangeRule ==
  /\ \A t \in Threads : LostExchange(t) => registry_ # thr[t].registry
  /\ registry_' # registry_ => \E t \in Threads : WonExchange(t)

\* C21: with fair scheduling and no platform failure every Allocate and
\* Release call eventually returns, and a compare-exchange of RegisterSpan or
\* CreateNewRegistry lost to contention means that another thread's
\* compare-exchange on the registry cell succeeded after this thread's load.
C21_EveryCallReturns ==
  /\ \A t \in Threads : InCall(t) ~> (Returned(t) \/ OutOfPages)
  /\ [][ExchangeRule]_vars
====
